---- MODULE Spec2Model ----
(***************************************************************************)
(* Model of sudo's exec interception core:                                 *)
(*   src/sudo-main/src/exec_preload.c    sudo_preload_dso                  *)
(*   src/sudo-main/src/sudo_intercept.c  resolve_path, exec_wrapper,       *)
(*                                       execl_wrapper, the exec entry     *)
(*                                       points of both builds             *)
(*                                                                         *)
(* C strings are sequences of one-character strings.  A pointer to a       *)
(* string is a record [s, own]: s is the text, own names the allocation    *)
(* the text lives in ("caller", "preload", "fdstr", "static"), so that a   *)
(* pointer to released memory can be told from a live one.  A pointer      *)
(* array is a sequence of such pointers; C index i is TLA+ index i + 1.    *)
(* _PATH_ASAN_LIB is taken as undefined (a sanitizer build only).          *)
(***************************************************************************)
EXTENDS Integers, Sequences, FiniteSets, TLC

VARIABLES
    \* ---- sudo_preload_dso ----
    base_env,       \* the caller's envp[] as passed to the first call
    dso_file,       \* the dso_file argument
    intercept_fd,   \* the intercept_fd argument (-1: none)
    enable_var,     \* build flag: RTLD_PRELOAD_ENABLE_VAR is defined
    has_default,    \* build flag: RTLD_PRELOAD_DEFAULT is defined
    pcall,          \* "idle", "first" (one call made), "second" (called on its own output)
    r1,             \* outcome of the first call
    r2,             \* outcome of the second call
    \* ---- the interception library ----
    build,          \* "interpose" (HAVE___INTERPOSE) or "override" (dlsym / shl_load)
    environ,        \* the live environment of the process: a sequence of strings
    fs,             \* what stat() answers for each path it may be asked about
    pc,             \* where the intercepted call stands
    entry,          \* the exec entry point that was called
    call,           \* the arguments the program passed to it
    req,            \* exec_wrapper's cmnd, argv, envp, is_execvp
    outs,           \* exec_wrapper's ncmnd, nargv, nenvp
    allowed,        \* what command_allowed returned: "yes", "no", "unasked" before the call
    errno,          \* the errno the call leaves to the program
    trace,          \* the calls made to the outside, in order
    rres            \* the outcome of resolve_path

preload_vars == <<base_env, dso_file, intercept_fd, enable_var, has_default, pcall, r1, r2>>

exec_vars == <<build, environ, fs, pc, entry, call, req, outs, allowed, errno, trace, rres>>

vars == <<preload_vars, exec_vars>>

-----------------------------------------------------------------------------
(* Bounds of the model *)

MaxEnv == 3

MaxPath == 3

\* PATH_MAX of <limits.h>, scaled down so that a candidate can reach it.
PATH_MAX == 6

-----------------------------------------------------------------------------
(* Strings and pointers *)

NULL == [s |-> <<>>, own |-> "null"]

UNINIT == [s |-> <<>>, own |-> "uninit"]

Ptr(str, owner) == [s |-> str, own |-> owner]

At(arr, i) == arr[i + 1]

Put(arr, i, p) == [arr EXCEPT ![i + 1] = p]

\* strncmp(str, prefix, strlen(prefix)) == 0
HasPrefix(str, prefix) ==
    /\ Len(str) >= Len(prefix)
    /\ SubSeq(str, 1, Len(prefix)) = prefix

\* str + n
Skip(str, n) == SubSeq(str, n + 1, Len(str))

B2I(b) == IF b THEN 1 ELSE 0

RTLD_PRELOAD_VAR == <<"L", "D", "_", "P", "R", "E", "L", "O", "A", "D">>

RTLD_PRELOAD_DELIM == ":"

RTLD_PRELOAD_ENABLE_VAR == <<"L", "D", "_", "F", "L", "A", "T">>

RTLD_PRELOAD_DEFAULT == <<"D", "E", "F">>

SUDO_INTERCEPT_FD_EQ ==
    <<"S", "U", "D", "O", "_", "I", "N", "T", "E", "R", "C", "E", "P", "T", "_", "F", "D", "=">>

Digits == <<"0", "1", "2", "3", "4", "5", "6", "7", "8", "9">>

IsDigit(c) == \E d \in 1..10 : Digits[d] = c

DigitVal(c) == (CHOOSE d \in 1..10 : Digits[d] = c) - 1

INT_MAX == 2147483647

\* The digits of str read as a base-10 number (str is all digits).
RECURSIVE DecValue(_)
DecValue(str) ==
    IF str = <<>> THEN 0
    ELSE 10 * DecValue(SubSeq(str, 1, Len(str) - 1)) + DigitVal(str[Len(str)])

\* str without its leading zeros (one digit is kept).
RECURSIVE StripZeros(_)
StripZeros(str) ==
    IF Len(str) > 1 /\ str[1] = "0" THEN StripZeros(Skip(str, 1)) ELSE str

\* Does the digit string str (no leading zeros) denote a number <= INT_MAX?
FitsInt(str) ==
    \/ Len(str) <= 9
    \/ /\ Len(str) = 10
       /\ LET high == DecValue(SubSeq(str, 1, 9))
              last == DigitVal(str[10])
          IN  high < INT_MAX \div 10 \/ (high = INT_MAX \div 10 /\ last <= INT_MAX % 10)

\* sudo_strtonum(str, 0, INT_MAX, &errstr): [val, err]; err is TRUE when errstr
\* is set (not a base-10 integer, or out of range) and then val is 0.
sudo_strtonum(str) ==
    IF /\ str # <<>>
       /\ \A k \in 1..Len(str) : IsDigit(str[k])
       /\ FitsInt(StripZeros(str))
    THEN [val |-> DecValue(StripZeros(str)), err |-> FALSE]
    ELSE [val |-> 0, err |-> TRUE]

\* printf's %d
RECURSIVE FormatNat(_)
FormatNat(n) ==
    IF n < 10 THEN <<Digits[n + 1]>>
    ELSE FormatNat(n \div 10) \o <<Digits[(n % 10) + 1]>>

FormatInt(n) == IF n < 0 THEN <<"-">> \o FormatNat(-n) ELSE FormatNat(n)

-----------------------------------------------------------------------------
(* sudo_preload_dso: the scan of envp (lines 76-131) *)

\* strncmp(e, RTLD_PRELOAD_VAR "=", sizeof(RTLD_PRELOAD_VAR)) == 0
IsPreloadEntry(e) == HasPrefix(e, RTLD_PRELOAD_VAR \o <<"=">>)

PreloadValue(e) == Skip(e, Len(RTLD_PRELOAD_VAR) + 1)

IsInterceptFdEntry(e) == HasPrefix(e, SUDO_INTERCEPT_FD_EQ)

InterceptFdValue(e) == Skip(e, Len(SUDO_INTERCEPT_FD_EQ))

IsEnableEntry(e) == HasPrefix(e, RTLD_PRELOAD_ENABLE_VAR \o <<"=">>)

\* Is dso already first in the list cp?
DsoIsFirst(cp, dso) ==
    /\ HasPrefix(cp, dso)
    /\ \/ Len(cp) = Len(dso)
       \/ cp[Len(dso) + 1] = RTLD_PRELOAD_DELIM

FdIsPresent(cp, fd) ==
    LET n == sudo_strtonum(cp) IN n.val = fd /\ ~n.err

\* for (i = env_len; envp[i] != NULL; i++) envp[i] = envp[i + 1];
RECURSIVE RemoveDuplicate(_, _)
RemoveDuplicate(envp, i) ==
    IF At(envp, i) = NULL THEN envp
    ELSE RemoveDuplicate(Put(envp, i, At(envp, i + 1)), i + 1)

ScanInit(envp, enable) ==
    [envp |-> envp, env_len |-> 0, preload_idx |-> -1, intercept_idx |-> -1,
     fd_present |-> FALSE, dso_present |-> FALSE, dso_enabled |-> ~enable]

\* The body of the counting loop for the entry at index st.env_len.
ScanEntry(st, dso, fd, enable) ==
    LET e == At(st.envp, st.env_len).s IN
    IF IsPreloadEntry(e) THEN
        IF st.preload_idx = -1
        THEN [st EXCEPT !.dso_present = DsoIsFirst(PreloadValue(e), dso),
                        !.preload_idx = st.env_len]
        ELSE [st EXCEPT !.envp = RemoveDuplicate(st.envp, st.env_len)]
    ELSE IF fd # -1 /\ IsInterceptFdEntry(e) THEN
        IF st.intercept_idx = -1
        THEN [st EXCEPT !.fd_present = FdIsPresent(InterceptFdValue(e), fd),
                        !.intercept_idx = st.env_len]
        ELSE [st EXCEPT !.envp = RemoveDuplicate(st.envp, st.env_len)]
    ELSE IF enable /\ IsEnableEntry(e) THEN
        [st EXCEPT !.dso_enabled = TRUE]
    ELSE st

\* for (env_len = 0; envp[env_len] != NULL; env_len++) { ... }
RECURSIVE ScanLoop(_, _, _, _)
ScanLoop(st, dso, fd, enable) ==
    IF At(st.envp, st.env_len) = NULL THEN st
    ELSE ScanLoop([ScanEntry(st, dso, fd, enable) EXCEPT !.env_len = @ + 1],
                  dso, fd, enable)

-----------------------------------------------------------------------------
(* sudo_preload_dso: the new array and the entries added (lines 133-211).  *)
(* A frame f carries the locals: the scan results, caller (the caller's    *)
(* array), nenvp and own_arr (nenvp != NULL), preload, status ("run",      *)
(* "null": returned NULL at line 144, "oom": went to oom, "crash": the     *)
(* process died on a store outside nenvp), and what was stored where.      *)

NeedCopy(st) == st.preload_idx = -1 \/ ~st.dso_enabled \/ st.intercept_idx = -1

EnvSize(st) ==
    st.env_len + 1 + B2I(st.preload_idx = -1) + B2I(st.dso_enabled)
        + B2I(st.intercept_idx = -1)

\* CopyEnv with the copy one entry short.
CopyEnv_OneShort(envp, env_len, env_size) ==
    [k \in 1..env_size |->
        IF k < env_len THEN envp[k]
        ELSE IF k = env_len \/ k = env_len + 1 THEN NULL
        ELSE UNINIT]

\* memcpy(nenvp, envp, env_len * sizeof(*envp)); nenvp[env_len] = NULL;
\* the slots after it are what reallocarray left there.
CopyEnv(envp, env_len, env_size) ==
    [k \in 1..env_size |->
        IF k <= env_len THEN envp[k]
        ELSE IF k = env_len + 1 THEN NULL
        ELSE UNINIT]

AllocEnv(st, fail) ==
    LET base == [caller |-> st.envp, nenvp |-> <<>>, own_arr |-> FALSE,
                 env_len |-> st.env_len, env_size |-> 0,
                 preload_idx |-> st.preload_idx, intercept_idx |-> st.intercept_idx,
                 fd_present |-> st.fd_present, dso_present |-> st.dso_present,
                 dso_enabled |-> st.dso_enabled,
                 preload |-> NULL, status |-> "run", overflow |-> FALSE, maxidx |-> -1]
    IN  IF ~NeedCopy(st) THEN base
        ELSE IF fail = "nenvp" THEN [base EXCEPT !.status = "null", !.env_size = EnvSize(st)]
        ELSE [base EXCEPT !.nenvp = CopyEnv(st.envp, st.env_len, EnvSize(st)),
                          !.own_arr = TRUE,
                          !.env_size = EnvSize(st),
                          !.maxidx = st.env_len]

\* The array envp points to.
Envp(f) == IF f.own_arr THEN f.nenvp ELSE f.caller

Max(a, b) == IF a > b THEN a ELSE b

\* envp[i] = p.  A store at or past the end of nenvp is undefined: it lands
\* in memory after the array (ub = "slack") or the process dies (ub = "abort").
Store(f, i, p, ub) ==
    IF f.status # "run" THEN f
    ELSE IF ~f.own_arr THEN [f EXCEPT !.caller = Put(@, i, p)]
    ELSE IF i < f.env_size THEN [f EXCEPT !.nenvp = Put(@, i, p), !.maxidx = Max(@, i)]
    ELSE IF ub = "abort" THEN [f EXCEPT !.status = "crash", !.overflow = TRUE,
                                        !.maxidx = Max(@, i)]
    ELSE [f EXCEPT !.nenvp = [k \in 1..Max(Len(@), i + 1) |->
                                 IF k = i + 1 THEN p
                                 ELSE IF k <= Len(@) THEN @[k] ELSE UNINIT],
                   !.overflow = TRUE,
                   !.maxidx = Max(@, i)]

\* AppendEntry with env_len left where it was.
AppendEntry_NoAdvance(f, p, ub) ==
    Store(Store(f, f.env_len, p, ub), f.env_len + 1, NULL, ub)

\* envp[env_len++] = p; envp[env_len] = NULL;
AppendEntry(f, p, ub) ==
    LET g == Store(f, f.env_len, p, ub)
        h == IF g.status = "run" THEN [g EXCEPT !.env_len = @ + 1] ELSE g
    IN  Store(h, h.env_len, NULL, ub)

NewPreload(dso, default) ==
    IF default
    THEN RTLD_PRELOAD_VAR \o <<"=">> \o dso \o <<RTLD_PRELOAD_DELIM>> \o RTLD_PRELOAD_DEFAULT
    ELSE RTLD_PRELOAD_VAR \o <<"=">> \o dso

\* PrependPreload with the old value dropped for the platform's default.
PrependPreload_Default(dso, old_val) == NewPreload(dso, TRUE)

\* Lines 169-171: "%s=%s%c%s" of the variable, dso_file, the delimiter and
\* the old value.
PrependPreload(dso, old_val) ==
    RTLD_PRELOAD_VAR \o <<"=">> \o dso \o <<RTLD_PRELOAD_DELIM>> \o old_val

\* Lines 151-177.
AddPreload(f, dso, default, fail, ub) ==
    IF f.status # "run" \/ f.dso_present THEN f
    ELSE IF fail = "preload" THEN [f EXCEPT !.status = "oom"]
    ELSE IF f.preload_idx = -1 THEN
        LET p == Ptr(NewPreload(dso, default), "preload")
        IN  AppendEntry([f EXCEPT !.preload = p], p, ub)
    ELSE
        LET old_val == PreloadValue(At(Envp(f), f.preload_idx).s)
            p == Ptr(PrependPreload(dso, old_val), "preload")
        IN  Store([f EXCEPT !.preload = p], f.preload_idx, p, ub)

\* Lines 178-183.
AddEnable(f, enable, ub) ==
    IF f.status # "run" \/ ~enable \/ f.dso_enabled THEN f
    ELSE AppendEntry(f, Ptr(RTLD_PRELOAD_ENABLE_VAR \o <<"=">>, "static"), ub)

NewInterceptFd(fd) == SUDO_INTERCEPT_FD_EQ \o FormatInt(fd)

\* Lines 184-197.
AddInterceptFd(f, fd, fail, ub) ==
    IF f.status # "run" \/ f.fd_present \/ fd = -1 THEN f
    ELSE IF fail = "fdstr" THEN [f EXCEPT !.status = "oom"]
    ELSE
        LET p == Ptr(NewInterceptFd(fd), "fdstr")
        IN  IF f.intercept_idx # -1 THEN Store(f, f.intercept_idx, p, ub)
            ELSE AppendEntry(f, p, ub)

\* oom: free(preload); free(nenvp);
Released(f) ==
    IF f.status # "oom" THEN {}
    ELSE (IF f.preload # NULL THEN {"preload"} ELSE {})
         \cup (IF f.own_arr THEN {"nenvp"} ELSE {})

\* What one call leaves behind: ret is "ok" (envp returned), "null" (NULL
\* returned) or "crash"; arr is the array returned; caller is the caller's
\* own array after the call; aliased says that arr is the caller's array.
Outcome(f) ==
    [ret      |-> IF f.status = "run" THEN "ok"
                  ELSE IF f.status = "crash" THEN "crash" ELSE "null",
     arr      |-> IF f.status = "run" THEN Envp(f) ELSE <<>>,
     aliased  |-> ~f.own_arr,
     caller   |-> f.caller,
     released |-> Released(f),
     env_size |-> f.env_size,
     maxidx   |-> f.maxidx,
     overflow |-> f.overflow,
     oom      |-> f.status \in {"oom", "null"}]

\* fail names the allocation that fails in this call ("none", "nenvp",
\* "preload", "fdstr"); an allocation the call does not reach cannot fail.
sudo_preload_dso(envp, dso, fd, enable, default, fail, ub) ==
    LET st == ScanLoop(ScanInit(envp, enable), dso, fd, enable)
        f0 == AllocEnv(st, fail)
        f1 == AddPreload(f0, dso, default, fail, ub)
        f2 == AddEnable(f1, enable, ub)
        f3 == AddInterceptFd(f2, fd, fail, ub)
    IN  Outcome(f3)

-----------------------------------------------------------------------------
(* Reading an environment array as its user does: up to the first NULL. *)

RECURSIVE EnvLen(_, _)
EnvLen(arr, i) ==
    IF i >= Len(arr) \/ At(arr, i) = NULL THEN i ELSE EnvLen(arr, i + 1)

Entries(arr) == [k \in 1..EnvLen(arr, 0) |-> arr[k].s]

Terminated(arr) == EnvLen(arr, 0) < Len(arr)

-----------------------------------------------------------------------------
(* resolve_path (sudo_intercept.c lines 67-125) *)

PATH_EQ == <<"P", "A", "T", "H", "=">>

\* for (p = environ; (cp = *p) != NULL; p++): the index of the first PATH=
\* entry of env, 0 when there is none.
RECURSIVE FindPath(_, _)
FindPath(env, k) ==
    IF k > Len(env) THEN 0
    ELSE IF HasPrefix(env[k], PATH_EQ) THEN k
    ELSE FindPath(env, k + 1)

\* strchr(str, c): the position of the first c in str, 0 when there is none.
RECURSIVE StrChr(_, _, _)
StrChr(str, c, k) ==
    IF k > Len(str) THEN 0
    ELSE IF str[k] = c THEN k
    ELSE StrChr(str, c, k + 1)

\* snprintf(path, sizeof(path), "./%s", cmnd) or "%.*s/%s": the text asked for.
Candidate(dir, cmnd) ==
    IF Len(dir) = 0 THEN <<".", "/">> \o cmnd ELSE dir \o <<"/">> \o cmnd

\* stat(path, &sb): "OK" or the errno it sets.
Stat(files, path) == IF path \in DOMAIN files THEN files[path] ELSE "ENOENT"

\* RetainError with a name-too-long kept over a later permission-denied.
RetainError_Priority(errval, err) ==
    IF err = "EACCES" /\ errval # "ENAMETOOLONG" THEN "EACCES" ELSE errval

\* What the switch on errno does with errval after a failed stat.
RetainError(errval, err) == IF err = "EACCES" THEN "EACCES" ELSE errval

NonFatal == {"EACCES", "ELOOP", "ENOTDIR", "ENOENT"}

\* The while (cp < endp) loop; cp is the text from cp to endp.  tried lists
\* each candidate formed with what became of it ("TOOLONG": skipped unstatted).
RECURSIVE ResolveLoop(_, _, _, _, _, _)
ResolveLoop(cp, cmnd, files, out_size, errval, tried) ==
    IF Len(cp) = 0 THEN [ok |-> FALSE, out |-> <<>>, errno |-> errval, tried |-> tried]
    ELSE
        LET colon == StrChr(cp, ":", 1)
            dirlen == IF colon # 0 THEN colon - 1 ELSE Len(cp)
            path == Candidate(SubSeq(cp, 1, dirlen), cmnd)
            next == IF colon # 0 THEN Skip(cp, colon) ELSE <<>>
            res == Stat(files, path)
        IN  IF Len(path) >= PATH_MAX THEN
                ResolveLoop(next, cmnd, files, out_size, "ENAMETOOLONG",
                            Append(tried, [path |-> path, res |-> "TOOLONG"]))
            ELSE IF res = "OK" THEN
                IF Len(path) >= out_size
                THEN [ok |-> FALSE, out |-> <<>>, errno |-> "ENAMETOOLONG",
                      tried |-> Append(tried, [path |-> path, res |-> res])]
                ELSE [ok |-> TRUE, out |-> path, errno |-> "unset",
                      tried |-> Append(tried, [path |-> path, res |-> res])]
            ELSE IF res \in NonFatal THEN
                ResolveLoop(next, cmnd, files, out_size, RetainError(errval, res),
                            Append(tried, [path |-> path, res |-> res]))
            ELSE [ok |-> FALSE, out |-> <<>>, errno |-> res,
                  tried |-> Append(tried, [path |-> path, res |-> res])]

resolve_path(cmnd, env, files, out_size) ==
    LET k == FindPath(env, 1) IN
    IF k = 0 THEN [ok |-> FALSE, out |-> <<>>, errno |-> "ENOENT", tried |-> <<>>]
    ELSE ResolveLoop(Skip(env[k], Len(PATH_EQ)), cmnd, files, out_size, "ENOENT", <<>>)

-----------------------------------------------------------------------------
(* Objects the interception library handles.  An object is [id, val]: id   *)
(* is its identity (what pointer comparison compares), val its content.    *)
(* An argument array's content is the sequence of its arguments, without   *)
(* the terminator.                                                         *)

Obj(id, val) == [id |-> id, val |-> val]

NullObj == Obj("NULL", <<>>)

NoReq == [cmnd |-> NullObj, argv |-> NullObj, envp |-> NullObj, is_execvp |-> FALSE]

NoOuts == [ncmnd |-> NullObj, nargv |-> NullObj, nenvp |-> NullObj]

NoCall == [name |-> <<>>, args |-> <<>>, envp |-> NullObj]

NoResolve == [ok |-> FALSE, out |-> <<>>, errno |-> "unset", tried |-> <<>>]

EnvironObj == Obj("environ", environ)

Log(ev) == trace' = Append(trace, ev)

-----------------------------------------------------------------------------
(* The entry points (lines 232-306 and 335-395) *)

CmndPool == {<<"c">>, <<"/", "c">>}

ArgsPool == {<<>>, <<"c">>, <<"c", "x">>}

CallerEnvPool == {<<>>, <<PATH_EQ \o <<"b">> >>}

\* The program calls one of the exec functions: name is its first argument,
\* args the argument list (an array, or the variadic arguments), envp the
\* environment argument of the entry points that take one.
Program(e, name, args, envp) ==
    /\ pc = "idle"
    /\ entry' = e
    /\ call' = [name |-> name, args |-> args, envp |-> envp]
    /\ UNCHANGED <<build, environ, fs, outs, allowed, errno, trace, rres>>

\* exec_wrapper(cmnd, argv, envp, is_execvp) is entered.
EnterWrapper(cmnd, argv, envp, is_execvp) ==
    /\ req' = [cmnd |-> cmnd, argv |-> argv, envp |-> envp, is_execvp |-> is_execvp]
    /\ pc' = "wrapper"

\* execve / my_execve
Call_execve ==
    \E name \in CmndPool, args \in ArgsPool, env \in CallerEnvPool :
        /\ Program("execve", name, args, Obj("envp_arg", env))
        /\ EnterWrapper(Obj("cmnd_arg", name), Obj("argv_arg", args), EnvironObj, FALSE)

\* execv / my_execv: both call execve(cmnd, argv, environ).  In the override
\* build that is the library's own execve; in the interposition build it is
\* the execve line 149 takes for the real one.
Call_execv ==
    \E name \in CmndPool, args \in ArgsPool :
        /\ Program("execv", name, args, NullObj)
        /\ IF build = "interpose"
           THEN /\ req' = [cmnd |-> Obj("cmnd_arg", name), argv |-> Obj("argv_arg", args),
                           envp |-> EnvironObj, is_execvp |-> FALSE]
                /\ pc' = "direct"
           ELSE EnterWrapper(Obj("cmnd_arg", name), Obj("argv_arg", args), EnvironObj, FALSE)

\* execvpe / my_execvpe
Call_execvpe ==
    \E name \in CmndPool, args \in ArgsPool, env \in CallerEnvPool :
        /\ Program("execvpe", name, args, Obj("envp_arg", env))
        /\ EnterWrapper(Obj("cmnd_arg", name), Obj("argv_arg", args),
                        Obj("envp_arg", env), TRUE)

\* execvp / my_execvp
Call_execvp ==
    \E name \in CmndPool, args \in ArgsPool :
        /\ Program("execvp", name, args, NullObj)
        /\ EnterWrapper(Obj("cmnd_arg", name), Obj("argv_arg", args), EnvironObj, TRUE)

\* execl, execle, execlp and their my_ twins: va_start, then execl_wrapper.
\* The variadic list holds at least arg itself.
Call_execl ==
    \E e \in {"execl", "execle", "execlp"}, name \in CmndPool,
       args \in ArgsPool \ {<<>>}, env \in CallerEnvPool :
        /\ Program(e, name, args, IF e = "execle" THEN Obj("envp_arg", env) ELSE NullObj)
        /\ pc' = "execl"
        /\ UNCHANGED req

\* execl_wrapper, lines 194-216: the variadic arguments are collected in a
\* new array, which reallocarray may refuse.
execl_wrapper ==
    /\ pc = "execl"
    /\ \/ /\ pc' = "returned"
          /\ errno' = "ENOMEM"
          /\ UNCHANGED req
       \/ /\ EnterWrapper(Obj("cmnd_arg", call.name), Obj("argv_va", call.args),
                          IF entry = "execle" THEN call.envp ELSE EnvironObj,
                          entry = "execlp")
          /\ UNCHANGED errno
    /\ UNCHANGED <<build, environ, fs, entry, call, outs, allowed, trace, rres>>

-----------------------------------------------------------------------------
(* exec_wrapper (lines 127-191) *)

RealExecErrors == {"ENOEXEC", "ENOENT", "EACCES"}

AllowedRewrites == {"same", "fresh"}

DeniedLeftovers == {"null", "same", "fresh", "junk"}

FreshArgs == {<<"c">>, <<"n", "x", "y">>}

_PATH_SUDO_BSHELL == <<"/", "b", "i", "n", "/", "s", "h">>

\* NeedsLookup with every name taken as it is.
NeedsLookup_Never(cmnd) == FALSE

\* Line 137: if (strchr(cmnd, '/') == NULL).
NeedsLookup(cmnd) == StrChr(cmnd, "/", 1) = 0

\* Lines 137-146: only names without a '/' are looked up, and only for the
\* PATH-searching entry points.
wrapper_resolve ==
    /\ pc = "wrapper"
    /\ IF ~NeedsLookup(req.cmnd.val) THEN
            /\ pc' = "symbol"
            /\ UNCHANGED <<req, errno, rres>>
       ELSE IF ~req.is_execvp THEN
            /\ pc' = "unwound"
            /\ errno' = "ENOENT"
            /\ UNCHANGED <<req, rres>>
       ELSE LET r == resolve_path(req.cmnd.val, environ, fs, PATH_MAX) IN
            /\ rres' = r
            /\ IF r.ok
               THEN /\ req' = [req EXCEPT !.cmnd = Obj("cmnd_buf", r.out)]
                    /\ pc' = "symbol"
                    /\ UNCHANGED errno
               ELSE /\ pc' = "unwound"
                    /\ errno' = r.errno
                    /\ UNCHANGED req
    /\ UNCHANGED <<build, environ, fs, entry, call, outs, allowed, trace>>

\* Lines 148-158: fn is execve itself in the interposition build and the
\* result of a lookup, which may find nothing, in the others.
wrapper_symbol ==
    /\ pc = "symbol"
    /\ \/ /\ pc' = "policy"
          /\ UNCHANGED errno
       \/ /\ build # "interpose"
          /\ pc' = "unwound"
          /\ errno' = "EACCES"
    /\ UNCHANGED <<build, environ, fs, entry, call, req, outs, allowed, trace, rres>>

\* What command_allowed may leave in one of its outputs.
Rewritten(how, input, id, val) ==
    CASE how = "same" -> input
      [] how = "fresh" -> Obj(id, val)
      [] how = "junk" -> Obj("junk", <<>>)
      [] OTHER -> NullObj

\* AfterPolicy with the real execve outside the if.
AfterPolicy_ExecAnyway(ok) == "exec"

\* if (command_allowed(...)) { real execve ... } else { errno = EACCES; }
AfterPolicy(ok) == IF ok THEN "exec" ELSE "release"

\* Line 160 and lines 180-182: the policy decides.  When it allows, each
\* output is the input or a new object; when it denies, anything.
wrapper_policy ==
    /\ pc = "policy"
    /\ \E ok \in BOOLEAN, hc \in DeniedLeftovers, ha \in DeniedLeftovers,
          he \in DeniedLeftovers, na \in FreshArgs :
          /\ ok => {hc, ha, he} \subseteq AllowedRewrites
          /\ allowed' = IF ok THEN "yes" ELSE "no"
          /\ outs' = [ncmnd |-> Rewritten(hc, req.cmnd, "ncmnd_new", <<"/", "n">>),
                      nargv |-> Rewritten(ha, req.argv, "nargv_new", na),
                      nenvp |-> Rewritten(he, req.envp, "nenvp_new", <<>>)]
          /\ Log([ev |-> "command_allowed", cmnd |-> req.cmnd, argv |-> req.argv,
                  envp |-> req.envp, ret |-> ok])
          /\ pc' = AfterPolicy(ok)
          /\ IF ok THEN UNCHANGED errno ELSE errno' = "EACCES"
    /\ UNCHANGED <<build, environ, fs, entry, call, req, rres>>

\* A call of the real execve with what became of it: "replaced" when the
\* process image was replaced, the errno it failed with otherwise.
ExecEvent(call_ev, res) ==
    [ev |-> call_ev.ev, cmnd |-> call_ev.cmnd, argv |-> call_ev.argv,
     envp |-> call_ev.envp, res |-> res]

\* FirstExecArgs with the environment the caller passed.
FirstExecArgs_CallerEnv(in, out) ==
    [cmnd |-> out.ncmnd, argv |-> out.nargv, envp |-> in.envp]

\* Line 162: fn(ncmnd, nargv, nenvp).
FirstExecArgs(in, out) ==
    [cmnd |-> out.ncmnd, argv |-> out.nargv, envp |-> out.nenvp]

\* TakesFallback for every entry point.
TakesFallback_Always(e, is_execvp) == e = "ENOEXEC"

\* Line 165: if (errno == ENOEXEC && is_execvp).
TakesFallback(e, is_execvp) == e = "ENOEXEC" /\ is_execvp

\* Line 162: the real execve.  It returns only when it fails.
wrapper_exec ==
    /\ pc = "exec"
    /\ LET args == FirstExecArgs(req, outs)
           call_ev == [ev |-> "execve", cmnd |-> args.cmnd, argv |-> args.argv,
                       envp |-> args.envp]
       IN  \/ /\ Log(ExecEvent(call_ev, "replaced"))
              /\ pc' = "replaced"
              /\ UNCHANGED errno
           \/ \E e \in RealExecErrors :
                 /\ Log(ExecEvent(call_ev, e))
                 /\ errno' = e
                 /\ pc' = IF TakesFallback(e, req.is_execvp) THEN "fallback" ELSE "release"
    /\ UNCHANGED <<build, environ, fs, entry, call, req, outs, allowed, rres>>

\* An argument array as it lies in memory: the arguments, then the NULL.
ArgNull == "(null)"

ArgJunk == "(junk)"

InMemory(args) == Append(args, ArgNull)

\* Lines 169-176: shargv[0] = "sh"; shargv[1] = ncmnd; then argc pointers
\* copied from nargv + 1, argc being the length of argv.  A pointer read
\* from beyond nargv's terminator is whatever lies there.
ShellArgv(argv, ncmnd, nargv) ==
    LET argc == Len(argv)
        mem == InMemory(nargv)
    IN  <<"sh", ncmnd>> \o [k \in 1..argc |-> IF k + 1 <= Len(mem) THEN mem[k + 1] ELSE ArgJunk]

\* Lines 165-179: the shell is run on the command instead.
wrapper_fallback ==
    /\ pc = "fallback"
    /\ \/ /\ pc' = "unwound"             \* reallocarray failed: return -1
          /\ errno' = "ENOMEM"
          /\ UNCHANGED trace
       \/ LET shargv == Obj("shargv", ShellArgv(req.argv.val, outs.ncmnd.val, outs.nargv.val))
              call_ev == [ev |-> "execve", cmnd |-> Obj("_PATH_SUDO_BSHELL", _PATH_SUDO_BSHELL),
                          argv |-> shargv, envp |-> outs.nenvp]
          IN  \/ /\ trace' = Append(trace, ExecEvent(call_ev, "replaced"))
                 /\ pc' = "replaced"
                 /\ UNCHANGED errno
              \/ \E e \in RealExecErrors :
                    /\ trace' = trace \o <<ExecEvent(call_ev, e),
                                            [ev |-> "free", id |-> "shargv"]>>
                    /\ errno' = e
                    /\ pc' = "release"
    /\ UNCHANGED <<build, environ, fs, entry, call, req, outs, allowed, rres>>

\* if (p != q) free(p); free(NULL) does nothing.
FreeUnless(p, q) ==
    IF p.id # q.id /\ p.id # "NULL" THEN <<[ev |-> "free", id |-> p.id]>> ELSE <<>>

\* Lines 183-190.
wrapper_release ==
    /\ pc = "release"
    /\ trace' = trace \o FreeUnless(outs.ncmnd, req.cmnd) \o FreeUnless(outs.nargv, req.argv)
                      \o FreeUnless(outs.nenvp, req.envp)
    /\ pc' = "unwound"
    /\ UNCHANGED <<build, environ, fs, entry, call, req, outs, allowed, errno, rres>>

\* exec_wrapper has returned -1; execl_wrapper frees its array (line 217).
wrapper_return ==
    /\ pc = "unwound"
    /\ trace' = IF req.argv.id = "argv_va"
                THEN Append(trace, [ev |-> "free", id |-> "argv_va"])
                ELSE trace
    /\ pc' = "returned"
    /\ UNCHANGED <<build, environ, fs, entry, call, req, outs, allowed, errno, rres>>

\* my_execv of the interposition build, line 241.
direct_execve ==
    /\ pc = "direct"
    /\ LET call_ev == [ev |-> "execve", cmnd |-> req.cmnd, argv |-> req.argv,
                       envp |-> req.envp]
       IN  \/ /\ Log(ExecEvent(call_ev, "replaced"))
              /\ pc' = "replaced"
              /\ UNCHANGED errno
           \/ \E e \in RealExecErrors :
                 /\ Log(ExecEvent(call_ev, e))
                 /\ errno' = e
                 /\ pc' = "returned"
    /\ UNCHANGED <<build, environ, fs, entry, call, req, outs, allowed, rres>>

\* The program asks resolve_path alone (the search of one name).
resolve_only ==
    /\ pc = "lookup"
    /\ \E name \in {<<"c">>} :
          /\ rres' = resolve_path(name, environ, fs, PATH_MAX)
          /\ call' = [NoCall EXCEPT !.name = name]
    /\ pc' = "looked_up"
    /\ UNCHANGED <<build, environ, fs, entry, req, outs, allowed, errno, trace>>

-----------------------------------------------------------------------------
(* The callers of sudo_preload_dso *)

Str_Preload_a == RTLD_PRELOAD_VAR \o <<"=", "a">>

Str_Preload_d_a == RTLD_PRELOAD_VAR \o <<"=", "d", ":", "a">>

Str_Preload_dx == RTLD_PRELOAD_VAR \o <<"=", "d", "x">>

Str_PreloadX == RTLD_PRELOAD_VAR \o <<"X", "=", "d">>

Str_Fd_3 == SUDO_INTERCEPT_FD_EQ \o <<"3">>

Str_Fd_12 == SUDO_INTERCEPT_FD_EQ \o <<"1", "2">>

Str_Enable == RTLD_PRELOAD_ENABLE_VAR \o <<"=">>

Str_Home == <<"H", "=", "/">>

\* The strings a caller's environment is drawn from.
EntryPool ==
    {Str_Preload_a, Str_Preload_d_a, Str_Preload_dx, Str_PreloadX,
     Str_Fd_3, Str_Fd_12, Str_Enable, Str_Home}

DsoPool == {<<"d">>}

FdPool == {-1, 12}

\* A caller-owned, NULL-terminated array holding the strings of strs.
CallerArray(strs) == [k \in 1..Len(strs) + 1 |->
                        IF k <= Len(strs) THEN Ptr(strs[k], "caller") ELSE NULL]

\* The array a call returned, once its caller owns everything in it.
Adopt(arr) == [k \in 1..Len(arr) |->
                 IF arr[k].own \in {"null", "uninit"} THEN arr[k]
                 ELSE Ptr(arr[k].s, "caller")]

NoOutcome == [ret |-> "none"]

AllocFailures == {"none", "nenvp", "preload", "fdstr"}

StoreOutcomes == {"slack", "abort"}

\* No intercepted call is under way.
ExecOff ==
    /\ build = "override"
    /\ environ = <<>>
    /\ fs = <<>>
    /\ pc = "off"
    /\ entry = "none"
    /\ call = NoCall
    /\ req = NoReq
    /\ outs = NoOuts
    /\ allowed = "unasked"
    /\ errno = "unset"
    /\ trace = <<>>
    /\ rres = NoResolve

\* No environment is being built.
PreloadOff ==
    /\ base_env = <<NULL>>
    /\ dso_file = <<>>
    /\ intercept_fd = -1
    /\ enable_var = FALSE
    /\ has_default = FALSE
    /\ pcall = "off"
    /\ r1 = NoOutcome
    /\ r2 = NoOutcome

InitPreload ==
    /\ base_env \in {CallerArray(strs) :
                        strs \in UNION {[1..n -> EntryPool] : n \in 0..MaxEnv}}
    /\ dso_file \in DsoPool
    /\ intercept_fd \in FdPool
    /\ enable_var \in BOOLEAN
    /\ has_default \in BOOLEAN
    /\ pcall = "idle"
    /\ r1 = NoOutcome
    /\ r2 = NoOutcome
    /\ ExecOff

\* The broker builds the child's environment from its own.
CallPreload ==
    /\ pcall = "idle"
    /\ \E fail \in AllocFailures, ub \in StoreOutcomes :
          r1' = sudo_preload_dso(base_env, dso_file, intercept_fd,
                                 enable_var, has_default, fail, ub)
    /\ pcall' = "first"
    /\ UNCHANGED <<base_env, dso_file, intercept_fd, enable_var, has_default, r2>>
    /\ UNCHANGED exec_vars

\* The builder is applied to its own output with the same dso_file and fd.
CallPreloadAgain ==
    /\ pcall = "first"
    /\ r1.ret = "ok"
    /\ \E fail \in AllocFailures, ub \in StoreOutcomes :
          r2' = sudo_preload_dso(Adopt(r1.arr), dso_file, intercept_fd,
                                 enable_var, has_default, fail, ub)
    /\ pcall' = "second"
    /\ UNCHANGED <<base_env, dso_file, intercept_fd, enable_var, has_default, r1>>
    /\ UNCHANGED exec_vars

NextPreload == CallPreload \/ CallPreloadAgain

SpecPreload == InitPreload /\ [][NextPreload]_vars

-----------------------------------------------------------------------------
(* The monitored process *)

StatResults == {"OK", "EACCES", "ENOENT", "ENOTDIR", "ELOOP", "EIO"}

CandidatePool == {<<"a", "/", "c">>, <<"b", "/", "c">>, <<".", "/", "c">>}

DirPool == {<<>>, <<"a">>, <<"b">>, <<"l", "l", "l", "l">>}

\* The directories of dirs joined with ':'.
RECURSIVE JoinPath(_)
JoinPath(dirs) ==
    IF Len(dirs) = 0 THEN <<>>
    ELSE IF Len(dirs) = 1 THEN dirs[1]
    ELSE dirs[1] \o <<":">> \o JoinPath(Tail(dirs))

\* Environments with a PATH of up to n directories, and one without PATH.
EnvironPool(n) ==
    {<<Str_Home>>}
    \cup {<<Str_Home, PATH_EQ \o JoinPath(dirs)>> :
             dirs \in UNION {[1..m -> DirPool] : m \in 0..n}}

Init ==
    /\ PreloadOff
    /\ build \in {"interpose", "override"}
    /\ environ \in EnvironPool(1)
    /\ fs \in [{<<"a", "/", "c">>} -> {"OK", "ENOENT"}]
    /\ pc = "idle"
    /\ entry = "none"
    /\ call = NoCall
    /\ req = NoReq
    /\ outs = NoOuts
    /\ allowed = "unasked"
    /\ errno = "unset"
    /\ trace = <<>>
    /\ rres = NoResolve

Next ==
    \/ (Call_execve /\ UNCHANGED preload_vars)
    \/ (Call_execv /\ UNCHANGED preload_vars)
    \/ (Call_execvpe /\ UNCHANGED preload_vars)
    \/ (Call_execvp /\ UNCHANGED preload_vars)
    \/ (Call_execl /\ UNCHANGED preload_vars)
    \/ (execl_wrapper /\ UNCHANGED preload_vars)
    \/ (wrapper_resolve /\ UNCHANGED preload_vars)
    \/ (wrapper_symbol /\ UNCHANGED preload_vars)
    \/ (wrapper_policy /\ UNCHANGED preload_vars)
    \/ (wrapper_exec /\ UNCHANGED preload_vars)
    \/ (wrapper_fallback /\ UNCHANGED preload_vars)
    \/ (wrapper_release /\ UNCHANGED preload_vars)
    \/ (wrapper_return /\ UNCHANGED preload_vars)
    \/ (direct_execve /\ UNCHANGED preload_vars)

Spec == Init /\ [][Next]_vars

InitResolve ==
    /\ PreloadOff
    /\ build = "override"
    /\ environ \in EnvironPool(MaxPath)
    /\ fs \in [CandidatePool -> StatResults]
    /\ pc = "lookup"
    /\ entry = "none"
    /\ call = NoCall
    /\ req = NoReq
    /\ outs = NoOuts
    /\ allowed = "unasked"
    /\ errno = "unset"
    /\ trace = <<>>
    /\ rres = NoResolve

NextResolve == resolve_only /\ UNCHANGED preload_vars

SpecResolve == InitResolve /\ [][NextResolve]_vars

-----------------------------------------------------------------------------
(* Properties of sudo_preload_dso *)

PreloadsOf(es) == SelectSeq(es, IsPreloadEntry)

InterceptFdsOf(es) == SelectSeq(es, IsInterceptFdEntry)

IsManaged(e) == IsPreloadEntry(e) \/ IsInterceptFdEntry(e) \/ (enable_var /\ IsEnableEntry(e))

IsUnmanaged(e) == ~IsManaged(e)

UnmanagedOf(es) == SelectSeq(es, IsUnmanaged)

\* The number an entry SUDO_INTERCEPT_FD=<n> carries, -1 if it carries none.
FdOf(e) ==
    LET n == sudo_strtonum(InterceptFdValue(e)) IN IF n.err THEN -1 ELSE n.val

\* C3: the environment returned holds exactly one preload entry, the DSO
\* path is the first element of its value and, when the first preload entry
\* of the base environment did not start with the DSO path, the rest of the
\* value is that entry's old value.
C3_OnePreloadEntry ==
    r1.ret = "ok" =>
        LET new == PreloadsOf(Entries(r1.arr))
            old == PreloadsOf(Entries(base_env))
        IN  /\ Len(new) = 1
            /\ DsoIsFirst(PreloadValue(new[1]), dso_file)
            /\ (old # <<>> /\ ~DsoIsFirst(PreloadValue(old[1]), dso_file)) =>
                   PreloadValue(new[1])
                       = dso_file \o <<RTLD_PRELOAD_DELIM>> \o PreloadValue(old[1])

\* C4: for a descriptor n >= 0 the environment returned, read up to its
\* first terminator, holds exactly one SUDO_INTERCEPT_FD entry, of value n.
C4_OneInterceptFdEntry ==
    (r1.ret = "ok" /\ intercept_fd >= 0) =>
        LET fds == InterceptFdsOf(Entries(r1.arr))
        IN  Len(fds) = 1 /\ FdOf(fds[1]) = intercept_fd

\* C5: the builder applied to its own output, with the same dso_file and
\* descriptor, returns the same entries in the same order: one preload entry
\* with the DSO path first and at most one descriptor entry, equal to F.
C5_Idempotent ==
    (pcall = "second" /\ r2.ret = "ok") =>
        LET out == Entries(r2.arr)
        IN  /\ out = Entries(r1.arr)
            /\ Len(PreloadsOf(out)) = 1
            /\ DsoIsFirst(PreloadValue(PreloadsOf(out)[1]), dso_file)
            /\ Len(InterceptFdsOf(out)) <= 1
            /\ \A k \in 1..Len(InterceptFdsOf(out)) :
                   intercept_fd >= 0 => FdOf(InterceptFdsOf(out)[k]) = intercept_fd

\* The base environment has neither a preload nor a descriptor entry and a
\* descriptor is supplied.
C6_Case ==
    /\ r1.ret = "ok"
    /\ intercept_fd >= 0
    /\ PreloadsOf(Entries(base_env)) = <<>>
    /\ InterceptFdsOf(Entries(base_env)) = <<>>

\* The output is the base entries, then a new preload entry, then a new
\* descriptor entry, then the terminator.
C6_Shape ==
    LET in == Entries(base_env)
        out == Entries(r1.arr)
        n == Len(in)
    IN  /\ Terminated(r1.arr)
        /\ Len(out) = n + 2
        /\ SubSeq(out, 1, n) = in
        /\ IsPreloadEntry(out[n + 1])
        /\ DsoIsFirst(PreloadValue(out[n + 1]), dso_file)
        /\ IsInterceptFdEntry(out[n + 2])
        /\ FdOf(out[n + 2]) = intercept_fd

\* C6 as claimed: with no preload and no descriptor entry in the base
\* environment, the output is the base entries in order, the new preload
\* entry, the new descriptor entry, the terminator.
C6_AppendedInOrder_AsClaimed == C6_Case => C6_Shape

EnableInBase == \E k \in 1..Len(Entries(base_env)) : IsEnableEntry(Entries(base_env)[k])

\* C6 as amended: the same, on a build without an enable-toggle variable or
\* when the base environment already holds the toggle.
C6_AppendedInOrder == (C6_Case /\ (~enable_var \/ EnableInBase)) => C6_Shape

C6_Witness ==
    /\ C6_Case
    /\ ~enable_var
    /\ Len(Entries(base_env)) = 2
    /\ Entries(base_env)[1] # Entries(base_env)[2]
    /\ C6_Shape

\* C7: the entries of the output that are not the preload variable, the
\* enable toggle or SUDO_INTERCEPT_FD are those of the input, in order.
C7_UnmanagedPreserved ==
    /\ r1.ret = "ok" => UnmanagedOf(Entries(r1.arr)) = UnmanagedOf(Entries(base_env))
    /\ r2.ret = "ok" => UnmanagedOf(Entries(r2.arr)) = UnmanagedOf(Entries(r1.arr))

C7_Witness ==
    LET in == Entries(base_env) IN
    /\ r1.ret = "ok"
    /\ Len(in) = 3
    /\ IsPreloadEntry(in[1])
    /\ IsPreloadEntry(in[2])
    /\ IsUnmanaged(in[3])
    /\ UnmanagedOf(Entries(r1.arr)) = <<in[3]>>

\* C8: when the call fails on an allocation, the caller's array holds the
\* entries it held before, and none of its slots points to released memory.
C8_CallerUntouchedOnFailure ==
    r1.ret = "null" =>
        /\ Entries(r1.caller) = Entries(base_env)
        /\ \A k \in 1..Len(r1.caller) : r1.caller[k].own \notin r1.released

-----------------------------------------------------------------------------
(* Properties of the interception library *)

ExecveCalls == SelectSeq(trace, LAMBDA ev : ev.ev = "execve")

\* C1: in exec_wrapper, once command_allowed has returned false the real
\* exec is not invoked in that call, directly or through the shell fallback.
C1_DeniedNeverExecs == allowed = "no" => ExecveCalls = <<>>

C1_Witness ==
    /\ pc = "returned"
    /\ allowed = "no"
    /\ req.is_execvp
    /\ req.cmnd.id = "cmnd_buf"
    /\ errno = "EACCES"

\* C2: for every entry point of both builds, each invocation of the real
\* exec is preceded, in the same call, by a command_allowed that returned
\* true.
C2_ExecOnlyAfterAllow ==
    \A k \in 1..Len(trace) :
        trace[k].ev = "execve" =>
            \E j \in 1..(k - 1) : trace[j].ev = "command_allowed" /\ trace[j].ret

\* The components of a PATH value, as the ':' delimiters declare them.
RECURSIVE SplitPath(_)
SplitPath(str) ==
    LET colon == StrChr(str, ":", 1) IN
    IF colon = 0 THEN <<str>>
    ELSE <<SubSeq(str, 1, colon - 1)>> \o SplitPath(Skip(str, colon))

HasPath == FindPath(environ, 1) # 0

PathDirs == SplitPath(Skip(environ[FindPath(environ, 1)], Len(PATH_EQ)))

\* What the search meets at the k-th declared component.
Meets(k) ==
    LET path == Candidate(PathDirs[k], call.name) IN
    IF Len(path) >= PATH_MAX THEN "TOOLONG" ELSE Stat(fs, path)

Passable == NonFatal \cup {"TOOLONG"}

\* The first declared component whose candidate exists, when every
\* component before it is too long, denied, missing, not a directory or a
\* symlink loop; 0 when there is none.
FirstExisting ==
    LET hits == {k \in 1..Len(PathDirs) :
                    Meets(k) = "OK" /\ \A j \in 1..(k - 1) : Meets(j) \in Passable}
    IN  IF hits = {} THEN 0 ELSE CHOOSE k \in hits : TRUE

\* C9: the components are tried in their declared order, the search
\* succeeds with the candidate of the first component whose stat succeeds,
\* whatever passable errors came before, and no later component is consulted.
C9_FirstExistingWins ==
    (pc = "looked_up" /\ HasPath /\ FirstExisting # 0) =>
        /\ rres.ok
        /\ rres.out = Candidate(PathDirs[FirstExisting], call.name)
        /\ Len(rres.tried) = FirstExisting
        /\ \A k \in 1..FirstExisting :
              rres.tried[k].path = Candidate(PathDirs[k], call.name)

\* No candidate tried exists, and every failure met is a passable one.
C10_Case ==
    /\ pc = "looked_up"
    /\ HasPath
    /\ \A k \in 1..Len(rres.tried) : rres.tried[k].res \in Passable

TriedWith(res) == \E k \in 1..Len(rres.tried) : rres.tried[k].res = res

\* C10 as claimed: the search then fails with name-too-long if any candidate
\* was too long, otherwise permission-denied if any stat was denied,
\* otherwise not-found, whatever the order of the components.
C10_ByPriority_AsClaimed ==
    C10_Case =>
        /\ ~rres.ok
        /\ rres.errno = IF TriedWith("TOOLONG") THEN "ENAMETOOLONG"
                        ELSE IF TriedWith("EACCES") THEN "EACCES"
                        ELSE "ENOENT"

\* The position in tried of the last candidate that was too long or denied.
LastRetained ==
    LET at == {k \in 1..Len(rres.tried) : rres.tried[k].res \in {"TOOLONG", "EACCES"}}
    IN  IF at = {} THEN 0 ELSE CHOOSE k \in at : \A j \in at : j <= k

\* C10 as amended: the search then fails with the reason of the last
\* candidate that was too long or denied (name-too-long or permission-
\* denied), and with not-found when no candidate was either.
C10_LastReasonWins ==
    C10_Case =>
        /\ ~rres.ok
        /\ rres.errno = IF LastRetained = 0 THEN "ENOENT"
                        ELSE IF rres.tried[LastRetained].res = "TOOLONG" THEN "ENAMETOOLONG"
                        ELSE "EACCES"

C10_Witness ==
    /\ C10_Case
    /\ Len(rres.tried) = 3
    /\ rres.tried[1].res = "EACCES"
    /\ rres.tried[2].res = "TOOLONG"
    /\ rres.tried[3].res = "ENOTDIR"
    /\ rres.errno = "ENAMETOOLONG"

\* The calls of the real execve that run the system shell.
IsShellCall(ev) == ev.ev = "execve" /\ ev.cmnd.id = "_PATH_SUDO_BSHELL"

\* a1, ..., ak of the argument list a0, a1, ..., ak (nothing for an empty list).
Rest(args) == IF Len(args) = 0 THEN <<>> ELSE Tail(args)

\* C11: the shell fallback runs the shell on the array "sh", command,
\* a1, ..., ak, terminator, where command and a0, a1, ..., ak are what the
\* first attempt was given, for every length of the list, the empty list and
\* a rewritten list of another length included.
C11_FallbackArgv ==
    \A k \in 1..Len(trace) :
        IsShellCall(trace[k]) =>
            /\ k > 1
            /\ trace[k - 1].ev = "execve"
            /\ trace[k].argv.val = <<"sh", trace[k - 1].cmnd.val>>
                                       \o Rest(trace[k - 1].argv.val) \o <<ArgNull>>

\* How many times the object named id has been released.
Frees(id) == Cardinality({k \in 1..Len(trace) : trace[k].ev = "free" /\ trace[k].id = id})

\* The release owed for one output of command_allowed: one when it is
\* another object than the input, none when it is the input.
Owed(out, in) == IF out.id # in.id THEN 1 ELSE 0

\* C12: whenever exec_wrapper returns after command_allowed approved (the
\* real execve failed, the fallback failed, or the fallback array could not
\* be allocated), each output that differs from its input has been released
\* exactly once and no output that is its input has been released.
C12_ReleasedOnce ==
    (pc = "unwound" /\ allowed = "yes") =>
        /\ Frees(outs.ncmnd.id) = Owed(outs.ncmnd, req.cmnd)
        /\ Frees(outs.nargv.id) = Owed(outs.nargv, req.argv)
        /\ Frees(outs.nenvp.id) = Owed(outs.nenvp, req.envp)

\* C13: every index sudo_preload_dso writes in the array it allocated, the
\* final terminator included, is below the env_size it allocated, on every
\* platform and for every input.
C13_StoresInBounds ==
    (r1.ret # "none" /\ r1.env_size > 0) => r1.maxidx < r1.env_size

\* The search gets as far as the k-th declared component: every component
\* before it was passed over.
Reaches(k) == \A j \in 1..(k - 1) : Meets(j) \in Passable

\* C14: every empty PATH component the search gets to, be it leading,
\* interior, trailing or the whole of an empty PATH, has "./command" tried
\* at its position.
C14_EmptyMeansDot ==
    (pc = "looked_up" /\ HasPath) =>
        \A k \in 1..Len(PathDirs) :
            (PathDirs[k] = <<>> /\ Reaches(k)) =>
                /\ Len(rres.tried) >= k
                /\ rres.tried[k].path = <<".", "/">> \o call.name

\* The places of the command_allowed calls in the trace.
PolicyCalls == {k \in 1..Len(trace) : trace[k].ev = "command_allowed"}

\* Neither command_allowed nor the real execve has been called.
Quiet == \A k \in 1..Len(trace) : trace[k].ev \notin {"command_allowed", "execve"}

\* The call went through exec_wrapper, which has returned.
WrapperReturned ==
    /\ pc \in {"unwound", "returned"}
    /\ req # NoReq
    /\ ~(entry = "execv" /\ build = "interpose")

C15_State ==
    /\ Cardinality(PolicyCalls) <= 1
    /\ \A k \in PolicyCalls : StrChr(trace[k].cmnd.val, "/", 1) # 0
    /\ allowed # "unasked" =>
          \/ StrChr(call.name, "/", 1) # 0
          \/ req.is_execvp /\ rres.ok /\ trace[1].cmnd.val = rres.out
    /\ (WrapperReturned /\ StrChr(call.name, "/", 1) = 0 /\ ~req.is_execvp) =>
          errno = "ENOENT" /\ Quiet
    /\ (WrapperReturned /\ StrChr(call.name, "/", 1) = 0 /\ req.is_execvp /\ ~rres.ok) =>
          errno = rres.errno /\ Quiet

C15_Symbol ==
    (pc = "symbol" /\ pc' # "policy") =>
        /\ pc' = "unwound"
        /\ errno' = "EACCES"
        /\ trace' = trace
        /\ Quiet

\* C15: in a call of exec_wrapper command_allowed is called at most once,
\* and only once the path and the real execve have been resolved: a name
\* without '/' fails with ENOENT for the entry points that do not search
\* PATH, a failed search fails with the search's error, an unavailable real
\* execve fails with EACCES, each without a call of command_allowed or of
\* the real execve; so the command given to command_allowed holds a '/'.
C15_PolicyAfterResolution == [](C15_State) /\ [][C15_Symbol]_vars

C15_Witness ==
    /\ allowed # "unasked"
    /\ call.name = <<"c">>
    /\ Len(trace) >= 1
    /\ trace[1].ev = "command_allowed"
    /\ trace[1].cmnd.val = <<"a", "/", "c">>

\* The entry points that search PATH.
PathVariants == {"execvp", "execvpe", "execlp"}

\* C16: for execve, execv, execl and execle an ENOEXEC failure of the real
\* execve never starts the shell fallback: the real execve is called at most
\* once and the call returns with errno ENOEXEC; a second call of the real
\* execve is made only for execvp, execvpe and execlp, after ENOEXEC.
C16_FallbackOnlyForPathVariants ==
    /\ Len(ExecveCalls) <= 2
    /\ entry \notin PathVariants =>
          /\ Len(ExecveCalls) <= 1
          /\ \A k \in 1..Len(trace) : ~IsShellCall(trace[k])
          /\ (pc \in {"unwound", "returned"} /\ Len(ExecveCalls) = 1
                /\ ExecveCalls[1].res = "ENOEXEC") => errno = "ENOEXEC"
    /\ Len(ExecveCalls) = 2 =>
          /\ entry \in PathVariants
          /\ ExecveCalls[1].res = "ENOEXEC"
          /\ IsShellCall(ExecveCalls[2])

C16_Witness ==
    /\ entry = "execle"
    /\ pc = "returned"
    /\ Len(ExecveCalls) = 1
    /\ ExecveCalls[1].res = "ENOEXEC"
    /\ errno = "ENOEXEC"

\* The entry points that take an environment argument.
EnvVariants == {"execve", "execle", "execvpe"}

\* C17: command_allowed is given the caller's environment argument for
\* execve, execle and execvpe, and the live environment (environ) for execv,
\* execvp, execl and execlp.
C17_PolicyEnvironment ==
    \A k \in PolicyCalls :
        trace[k].envp = IF entry \in EnvVariants THEN call.envp ELSE EnvironObj

\* The first call of the real execve that exec_wrapper made after an
\* approval: it follows the command_allowed call at once.
FirstExecPlace == {k \in 2..Len(trace) : trace[k].ev = "execve" /\ (k - 1) \in PolicyCalls}

\* What the claim has the real execve receive for one of the three: the
\* object command_allowed returned when that is another one than the input,
\* the input itself when it is not.
Adopted(out, in) == IF out.id # in.id THEN out ELSE in

\* C18: after an approval the command, the argument list and the
\* environment of the first real execve call are, each for itself, the
\* object command_allowed returned when it substituted one and the input
\* when it did not, and none of the three is NULL.
C18_FirstExecArguments ==
    \A k \in FirstExecPlace :
        /\ trace[k].cmnd = Adopted(outs.ncmnd, req.cmnd)
        /\ trace[k].argv = Adopted(outs.nargv, req.argv)
        /\ trace[k].envp = Adopted(outs.nenvp, req.envp)
        /\ "NULL" \notin {trace[k].cmnd.id, trace[k].argv.id, trace[k].envp.id}

C18_Witness ==
    /\ FirstExecPlace # {}
    /\ outs.ncmnd.id = req.cmnd.id
    /\ outs.nargv.id # req.argv.id
    /\ outs.nenvp.id # req.envp.id
    /\ trace[2].envp.id = "nenvp_new"
    /\ trace[2].cmnd.id = "cmnd_buf"

\* The objects command_allowed left in its three outputs.
OutputIds == {outs.ncmnd.id, outs.nargv.id, outs.nenvp.id} \ {"NULL"}

\* C19: when command_allowed has returned false exec_wrapper makes no use
\* of the three outputs: they are not given to the real execve, not compared
\* with the inputs and not released.
C19_DeniedOutputsUnused ==
    (allowed = "no" /\ pc = "unwound") =>
        \A k \in 1..Len(trace) :
            /\ trace[k].ev # "execve"
            /\ trace[k].ev = "free" => trace[k].id \notin OutputIds

\* The preload entries sudo_preload_dso built in this call and stored in
\* the array it returned.
Constructed == {k \in 1..Len(r1.arr) : r1.arr[k].own = "preload"}

\* The place of the first preload entry of the base environment, 0 if none.
FirstPreload ==
    LET in == Entries(base_env)
        at == {k \in 1..Len(in) : IsPreloadEntry(in[k])}
    IN  IF at = {} THEN 0 ELSE CHOOSE k \in at : \A j \in at : k <= j

\* The scan meets the first preload entry of the base environment: nothing
\* was removed as a duplicate before it.
FirstPreloadMet ==
    /\ FirstPreload # 0
    /\ Len(InterceptFdsOf(SubSeq(Entries(base_env), 1, FirstPreload - 1))) <= 1

====
